---- MODULE Spec2Model ----
(***************************************************************************)
(* A model of the URL / URLSearchParams ponyfill.                           *)
(*                                                                         *)
(* A JavaScript string is modelled as a sequence of one-character strings, *)
(* so that the three URL grammars, the dot-segment normalizer, the         *)
(* percent-encoder and the query parser are computed character by          *)
(* character, the way the code computes them.                              *)
(***************************************************************************)
EXTENDS Integers, Sequences, FiniteSets, TLC

(***************************************************************************)
(* Characters and character classes                                        *)
(***************************************************************************)

\* The printable ASCII characters in code order; Ascii[i] has code 31 + i
\* (code 96, the grave accent, is written out by name).
Ascii ==
  << " ", "!", "\"", "#", "$", "%", "&", "'", "(", ")", "*", "+", ",", "-",
     ".", "/", "0", "1", "2", "3", "4", "5", "6", "7", "8", "9", ":", ";",
     "<", "=", ">", "?", "@", "A", "B", "C", "D", "E", "F", "G", "H", "I",
     "J", "K", "L", "M", "N", "O", "P", "Q", "R", "S", "T", "U", "V", "W",
     "X", "Y", "Z", "[", "\\", "]", "^", "_", "grave", "a", "b", "c", "d", "e",
     "f", "g", "h", "i", "j", "k", "l", "m", "n", "o", "p", "q", "r", "s",
     "t", "u", "v", "w", "x", "y", "z", "{", "|", "}", "~" >>

CharCode(c) == 31 + (CHOOSE i \in 1..Len(Ascii) : Ascii[i] = c)

Digit == { Ascii[i] : i \in 17..26 }

Letter == { Ascii[i] : i \in (34..59) \cup (66..91) }

\* [a-zA-Z\d+-.] : inside the class, "+-." is the range from "+" to ".".
SchemeChar == Letter \cup Digit \cup { Ascii[i] : i \in 12..15 }

\* The characters "." of a regular expression does not match.
LineTerminator == { "\n", "\r" }

\* The characters encodeURIComponent leaves as they are.
Unreserved == Letter \cup Digit \cup { "-", "_", ".", "!", "~", "*", "'", "(", ")" }

HexUpper == << "0", "1", "2", "3", "4", "5", "6", "7", "8", "9",
               "A", "B", "C", "D", "E", "F" >>

HexLower == << "0", "1", "2", "3", "4", "5", "6", "7", "8", "9",
               "a", "b", "c", "d", "e", "f" >>

IsHex(c) == \E i \in 1..16 : HexUpper[i] = c \/ HexLower[i] = c

HexVal(c) == (CHOOSE i \in 1..16 : HexUpper[i] = c \/ HexLower[i] = c) - 1

(***************************************************************************)
(* String primitives (String.prototype)                                    *)
(***************************************************************************)

Drop(s, n) == SubSeq(s, n + 1, Len(s))

Take(s, n) == SubSeq(s, 1, n)

StartsWith(s, p) == Len(s) >= Len(p) /\ Take(s, Len(p)) = p

EndsWith(s, p) == Len(s) >= Len(p) /\ Drop(s, Len(s) - Len(p)) = p

\* 1-based position of the first occurrence of c in s, 0 when there is none.
IndexOf(s, c) ==
  IF \E i \in 1..Len(s) : s[i] = c
  THEN CHOOSE i \in 1..Len(s) : s[i] = c /\ \A j \in 1..(i - 1) : s[j] # c
  ELSE 0

\* 1-based position of the last occurrence of c in s, 0 when there is none.
LastIndexOf(s, c) ==
  IF \E i \in 1..Len(s) : s[i] = c
  THEN CHOOSE i \in 1..Len(s) : s[i] = c /\ \A j \in (i + 1)..Len(s) : s[j] # c
  ELSE 0

\* Length of the longest prefix of s made of characters outside X: [^X]*
SpanNot(s, X) ==
  IF \E i \in 1..Len(s) : s[i] \in X
  THEN (CHOOSE i \in 1..Len(s) : s[i] \in X /\ \A j \in 1..(i - 1) : s[j] \notin X) - 1
  ELSE Len(s)

\* Length of the longest prefix of s made of characters of X: [X]*
Span(s, X) ==
  IF \E i \in 1..Len(s) : s[i] \notin X
  THEN (CHOOSE i \in 1..Len(s) : s[i] \notin X /\ \A j \in 1..(i - 1) : s[j] \in X) - 1
  ELSE Len(s)

\* a || b on strings
OrElse(a, b) == IF a = << >> THEN b ELSE a

RECURSIVE Join(_, _)
Join(segs, sep) ==
  IF segs = << >> THEN << >>
  ELSE IF Len(segs) = 1 THEN segs[1]
  ELSE segs[1] \o sep \o Join(Tail(segs), sep)

\* s.split(c) for a one-character separator.
RECURSIVE SplitOn(_, _)
SplitOn(s, c) ==
  LET i == IndexOf(s, c)
  IN  IF i = 0 THEN << s >>
      ELSE << Take(s, i - 1) >> \o SplitOn(Drop(s, i), c)

\* s.replace(/c/g, d) for one-character c.
ReplaceChar(s, c, d) == [i \in 1..Len(s) |-> IF s[i] = c THEN d ELSE s[i]]

\* s.replace(/%20/g, "+")
RECURSIVE ReplacePct20(_)
ReplacePct20(s) ==
  IF s = << >> THEN << >>
  ELSE IF StartsWith(s, << "%", "2", "0" >>) THEN << "+" >> \o ReplacePct20(Drop(s, 3))
  ELSE << Head(s) >> \o ReplacePct20(Tail(s))

(***************************************************************************)
(* _internal.ts: normalize                                                 *)
(***************************************************************************)

Separator == { "/", "\\" }

\* path.split(/[\\/]+/)
RECURSIVE SplitPath(_)
SplitPath(path) ==
  LET n == SpanNot(path, Separator)
      rest == Drop(path, n)
  IN  IF rest = << >> THEN << Take(path, n) >>
      ELSE << Take(path, n) >> \o SplitPath(Drop(rest, Span(rest, Separator)))

\* The loop of normalize with a ".." that finds nothing to pop kept as a
\* segment.
RECURSIVE NormalizeLoopKeepUp(_, _)
NormalizeLoopKeepUp(input, output) ==
  IF input = << >> THEN output
  ELSE LET segment == Head(input)
           out == IF segment = << ".", "." >>
                  THEN IF Len(output) > 1 \/ (Len(output) = 1 /\ output[1] # << >>)
                       THEN Take(output, Len(output) - 1)
                       ELSE Append(output, segment)
                  ELSE IF segment # << "." >> /\ segment # << >>
                  THEN Append(output, segment)
                  ELSE IF segment = << >> /\ Len(output) = 0
                  THEN Append(output, << >>)
                  ELSE output
       IN  NormalizeLoopKeepUp(Tail(input), out)

\* The loop of normalize over the segments of the path.
RECURSIVE NormalizeLoop(_, _)
NormalizeLoop(input, output) ==
  IF input = << >> THEN output
  ELSE LET segment == Head(input)
           out == IF segment = << ".", "." >>
                  THEN IF Len(output) > 1 \/ (Len(output) = 1 /\ output[1] # << >>)
                       THEN Take(output, Len(output) - 1)
                       ELSE output
                  ELSE IF segment # << "." >> /\ segment # << >>
                  THEN Append(output, segment)
                  ELSE IF segment = << >> /\ Len(output) = 0
                  THEN Append(output, << >>)
                  ELSE output
       IN  NormalizeLoop(Tail(input), out)

Normalize(path) ==
  LET o1 == NormalizeLoop(SplitPath(path), << >>)
      o2 == IF EndsWith(path, << "/" >>) THEN Append(o1, << >>) ELSE o1
      o3 == IF StartsWith(path, << "/" >>) /\ (o2 = << >> \/ o2[1] # << >>)
            THEN << << >> >> \o o2 ELSE o2
      o4 == IF o3 = << >> THEN << << >> >> ELSE o3
  IN  Join(o4, << "/" >>)

(***************************************************************************)
(* _internal.ts: the three grammars and parseURL                           *)
(***************************************************************************)

\* (?<pathname>...)?(?<search>\?[^#]*)?(?<hash>#.*)?$ read from the start of
\* t. With absPath the path must start with "/" (\/[^?#]*), otherwise it is
\* [^?#]*. ok says whether the three groups consume t up to its end.
TailGroups(t, absPath) ==
  LET np == IF absPath /\ ~StartsWith(t, << "/" >>) THEN 0
            ELSE SpanNot(t, { "?", "#" })
      r1 == Drop(t, np)
      ns == IF StartsWith(r1, << "?" >>) THEN SpanNot(r1, { "#" }) ELSE 0
      r2 == Drop(r1, ns)
      nh == IF StartsWith(r2, << "#" >>)
            THEN 1 + SpanNot(Tail(r2), LineTerminator) ELSE 0
  IN  [ ok |-> Drop(r2, nh) = << >>,
        pathname |-> Take(t, np), search |-> Take(r1, ns), hash |-> Take(r2, nh) ]

UserChars == { ":", "@", "/", "?", "#" }

HostChars == { ":", "/", "?", "#" }

\* (?:(?<username>[^:@\/?#]+)(?::(?<password>[^:@\/?#]*))?@)? read from the
\* start of a; rest is what follows the "@".
UserInfo(a) ==
  LET nu == SpanNot(a, UserChars)
      r1 == Drop(a, nu)
      np == IF StartsWith(r1, << ":" >>) THEN SpanNot(Tail(r1), UserChars) ELSE 0
      r2 == IF StartsWith(r1, << ":" >>) THEN Drop(r1, 1 + np) ELSE r1
  IN  IF nu >= 1 /\ StartsWith(r2, << "@" >>)
      THEN [ ok |-> TRUE, username |-> Take(a, nu),
             password |-> IF StartsWith(r1, << ":" >>) THEN SubSeq(r1, 2, 1 + np) ELSE << >>,
             rest |-> Tail(r2) ]
      ELSE [ ok |-> FALSE, username |-> << >>, password |-> << >>, rest |-> a ]

\* The groups of a host, its port and the tail that follows them.
HostPortGroups(hostname, port, tail) ==
  [ ok |-> hostname # << >> /\ tail.ok, hostname |-> hostname, port |-> port,
    tail |-> tail ]

\* (?<hostname>[^:\/?#]+)(?::(?<port>\d+))? followed by the tail groups. The
\* port group is taken whenever ":" and a digit follow the host: the tail
\* starts with "/", "?" or "#" or is empty, so it can follow neither the ":"
\* nor a digit the port group would give back.
HostPort(s) ==
  LET nh == SpanNot(s, HostChars)
      r1 == Drop(s, nh)
      nd == IF StartsWith(r1, << ":" >>) THEN Span(Tail(r1), Digit) ELSE 0
  IN  HostPortGroups(Take(s, nh),
                     IF nd >= 1 THEN SubSeq(r1, 2, 1 + nd) ELSE << >>,
                     TailGroups(IF nd >= 1 THEN Drop(r1, 1 + nd) ELSE r1, TRUE))

\* The authority and everything after it, a being what follows "//". The
\* user-info group is tried first and given up when the rest cannot match.
AuthorityGroups(ui, hp1, hp0) ==
  IF ui.ok /\ hp1.ok
  THEN [ ok |-> TRUE, username |-> ui.username, password |-> ui.password,
         hostname |-> hp1.hostname, port |-> hp1.port, tail |-> hp1.tail ]
  ELSE [ ok |-> hp0.ok, username |-> << >>, password |-> << >>,
         hostname |-> hp0.hostname, port |-> hp0.port, tail |-> hp0.tail ]

Authority(a) == AuthorityGroups(UserInfo(a), HostPort(UserInfo(a).rest), HostPort(a))

ParsedURL(protocol, username, password, hostname, port, pathname, search, hash) ==
  [ protocol |-> protocol, username |-> username, password |-> password,
    hostname |-> hostname, port |-> port, pathname |-> pathname,
    search |-> search, hash |-> hash ]

NoURL == ParsedURL(<< >>, << >>, << >>, << >>, << >>, << >>, << >>, << >>)

\* The tail groups of no match.
NoTail == [ ok |-> FALSE, pathname |-> << >>, search |-> << >>, hash |-> << >> ]

\* The groups of a match with an authority (au) or, failing that, with a
\* path alone (tg) after the first n characters of input.
MatchGroups(input, n, withAuth, au, tg) ==
  IF withAuth /\ au.ok
  THEN [ matched |-> TRUE,
         url |-> ParsedURL(Take(input, n), au.username, au.password,
                           au.hostname, au.port,
                           OrElse(au.tail.pathname, << "/" >>),
                           au.tail.search, au.tail.hash) ]
  ELSE [ matched |-> tg.ok,
         url |-> ParsedURL(Take(input, n), << >>, << >>, << >>, << >>,
                           OrElse(tg.pathname, << "/" >>), tg.search, tg.hash) ]

\* absoluteRegex.exec(input): matched, and the groups with their defaults.
AbsoluteMatch(input) ==
  LET i == IndexOf(input, ":")
      scheme == i >= 2 /\ input[1] \in Letter
                  /\ \A j \in 2..(i - 1) : input[j] \in SchemeChar
      rest == Drop(input, i)
  IN  IF ~scheme THEN [ matched |-> FALSE, url |-> NoURL ]
      ELSE MatchGroups(input, i, StartsWith(rest, << "/", "/" >>),
                       Authority(Drop(rest, 2)), TailGroups(rest, TRUE))

\* protocolRelativeRegex.exec(input)
ProtocolRelativeMatch(input) ==
  IF StartsWith(input, << "/", "/" >>)
  THEN MatchGroups(input, 0, TRUE, Authority(Drop(input, 2)), NoTail)
  ELSE [ matched |-> FALSE, url |-> NoURL ]

\* relativeRegex.exec(input)
RelativeMatch(input) ==
  LET tg == TailGroups(input, FALSE)
  IN  [ matched |-> tg.ok,
        url |-> ParsedURL(<< >>, << >>, << >>, << >>, << >>,
                          OrElse(tg.pathname, << "/" >>), tg.search, tg.hash) ]

\* The first of the three grammars that matches.
FirstMatch(absolute, protocolRelative, relative) ==
  IF absolute.matched THEN [ threw |-> FALSE, url |-> absolute.url ]
  ELSE IF protocolRelative.matched THEN [ threw |-> FALSE, url |-> protocolRelative.url ]
  ELSE IF relative.matched THEN [ threw |-> FALSE, url |-> relative.url ]
  ELSE [ threw |-> TRUE, url |-> NoURL ]

\* parseURL(input): threw is the TypeError("Invalid URL").
ParseURL(input) ==
  FirstMatch(AbsoluteMatch(input), ProtocolRelativeMatch(input), RelativeMatch(input))

(***************************************************************************)
(* _internal.ts: resolveURL                                                *)
(***************************************************************************)

ResolveURL(base, relative) ==
  IF relative.protocol # << >>
  THEN [ relative EXCEPT !.pathname = Normalize(OrElse(relative.pathname, << "/" >>)) ]
  ELSE IF relative.hostname # << >>
  THEN ParsedURL(base.protocol, relative.username, relative.password,
                 relative.hostname, relative.port,
                 Normalize(OrElse(relative.pathname, << "/" >>)),
                 relative.search, relative.hash)
  ELSE IF relative.pathname = << >>
  THEN ParsedURL(base.protocol, base.username, base.password, base.hostname,
                 base.port, OrElse(base.pathname, << "/" >>),
                 IF relative.search = << >> THEN base.search ELSE relative.search,
                 relative.hash)
  ELSE IF StartsWith(relative.pathname, << "/" >>)
  THEN ParsedURL(base.protocol, base.username, base.password, base.hostname,
                 base.port, Normalize(relative.pathname),
                 relative.search, relative.hash)
  ELSE LET basePath == base.pathname
           idx == LastIndexOf(basePath, "/")
           merged == (IF idx # 0 THEN Take(basePath, idx) ELSE << "/" >>)
                       \o relative.pathname
       IN  ParsedURL(base.protocol, base.username, base.password, base.hostname,
                     base.port, Normalize(merged), relative.search, relative.hash)

(***************************************************************************)
(* encodeURIComponent / decodeURIComponent                                 *)
(***************************************************************************)

\* The code of a character: printable ASCII by its place in Ascii, and the
\* three control characters a string of the model may carry.
CodeOf(c) ==
  IF c = "\n" THEN 10 ELSE IF c = "\r" THEN 13 ELSE IF c = "\t" THEN 9
  ELSE CharCode(c)

\* The character of a code below 128; control characters other than tab,
\* line feed and carriage return are written "ctl".
CharOf(v) ==
  IF v \in 32..126 THEN Ascii[v - 31]
  ELSE IF v = 10 THEN "\n" ELSE IF v = 13 THEN "\r" ELSE IF v = 9 THEN "\t"
  ELSE "ctl"

\* encodeURI in the place of encodeURIComponent: the reserved characters are
\* left as they are.
EncodeCharURI(c) ==
  IF c \in Unreserved \cup { ";", "/", "?", ":", "@", "&", "=", "+", "$", ",", "#" }
  THEN << c >>
  ELSE << "%", HexUpper[(CodeOf(c) \div 16) + 1], HexUpper[(CodeOf(c) % 16) + 1] >>

EncodeChar(c) ==
  IF c \in Unreserved THEN << c >>
  ELSE << "%", HexUpper[(CodeOf(c) \div 16) + 1], HexUpper[(CodeOf(c) % 16) + 1] >>

\* A surrogate code unit with no partner, as one character.
LoneSurrogate == "uD800"

\* encodeURIComponent(s) throws a URIError: s holds a lone surrogate.
EncodeThrows(s) == \E i \in 1..Len(s) : s[i] = LoneSurrogate

RECURSIVE EncodeURIComponent(_)
EncodeURIComponent(s) ==
  IF s = << >> THEN << >> ELSE EncodeChar(Head(s)) \o EncodeURIComponent(Tail(s))

\* decodeURIComponent(s): threw is the URIError of a "%" that is not followed
\* by two hexadecimal digits, or of an escape of 0x80 and above that starts no
\* well-formed UTF-8 sequence (the strings of the model are ASCII, so every
\* such escape is of that kind).
RECURSIVE DecodeURIComponent(_)
DecodeURIComponent(s) ==
  IF s = << >> THEN [ threw |-> FALSE, val |-> << >> ]
  ELSE IF Head(s) # "%"
  THEN LET r == DecodeURIComponent(Tail(s))
       IN  [ threw |-> r.threw, val |-> << Head(s) >> \o r.val ]
  ELSE IF Len(s) < 3 \/ ~IsHex(s[2]) \/ ~IsHex(s[3])
            \/ 16 * HexVal(s[2]) + HexVal(s[3]) >= 128
  THEN [ threw |-> TRUE, val |-> << >> ]
  ELSE LET r == DecodeURIComponent(Drop(s, 3))
       IN  [ threw |-> r.threw,
             val |-> << CharOf(16 * HexVal(s[2]) + HexVal(s[3])) >> \o r.val ]

(***************************************************************************)
(* url_search_params.ts: URLSearchParams                                   *)
(***************************************************************************)

\* One element of #list.
Pair(name, value) == << name, value >>

\* URLSearchParams.prototype.toString
RECURSIVE ToStringPairs(_)
ToStringPairs(list) ==
  IF list = << >> THEN << >>
  ELSE << ReplacePct20(EncodeURIComponent(list[1][1])) \o << "=" >>
            \o ReplacePct20(EncodeURIComponent(list[1][2])) >>
         \o ToStringPairs(Tail(list))

ParamsToString(list) == Join(ToStringPairs(list), << "&" >>)

\* toString() throws the URIError of encodeURIComponent.
ToStringThrows(list) ==
  \E i \in 1..Len(list) : EncodeThrows(list[i][1]) \/ EncodeThrows(list[i][2])

\* The loop of #parse over the pieces of query.split("&"), appending to
\* list; it stops at the first piece whose key or value does not decode.
RECURSIVE ParseLoop(_, _)
ParseLoop(list, pairs) ==
  IF pairs = << >> THEN [ threw |-> FALSE, list |-> list ]
  ELSE LET pair == Head(pairs)
           idx == IndexOf(pair, "=")
           key == IF idx = 0 THEN pair ELSE Take(pair, idx - 1)
           value == IF idx = 0 THEN << >> ELSE Drop(pair, idx)
           decodedKey == DecodeURIComponent(ReplaceChar(key, "+", " "))
           decodedValue == DecodeURIComponent(ReplaceChar(value, "+", " "))
       IN  IF decodedKey.threw \/ decodedValue.threw
           THEN [ threw |-> TRUE, list |-> list ]
           ELSE ParseLoop(Append(list, Pair(decodedKey.val, decodedValue.val)),
                          Tail(pairs))

\* URLSearchParams.#parse(query) on a container holding list.
ParseInto(list, query) ==
  LET q == IF StartsWith(query, << "?" >>) THEN Tail(query) ELSE query
  IN  IF q = << >> THEN [ threw |-> FALSE, list |-> list ]
      ELSE ParseLoop(list, SplitOn(q, "&"))

\* append(name, value)
ListAppend(list, name, value) == Append(list, Pair(name, value))

\* delete without the test of its second argument: every pair of the name
\* goes.
ListDeleteAll(list, name, hasValue, value) ==
  SelectSeq(list, LAMBDA pair : pair[1] # name)

\* delete(name) and delete(name, value): hasValue tells the two apart.
ListDelete(list, name, hasValue, value) ==
  SelectSeq(list, LAMBDA pair : pair[1] # name \/ (hasValue /\ pair[2] # value))

\* The loop of set(name, value) from index i on.
RECURSIVE SetLoop(_, _, _, _, _)
SetLoop(list, i, found, name, value) ==
  IF i > Len(list) THEN [ list |-> list, found |-> found ]
  ELSE IF list[i][1] = name
  THEN IF ~found
       THEN SetLoop([list EXCEPT ![i] = Pair(name, value)], i + 1, TRUE, name, value)
       ELSE SetLoop(Take(list, i - 1) \o Drop(list, i), i, TRUE, name, value)
  ELSE SetLoop(list, i + 1, found, name, value)

\* set(name, value) without its else branch: the later pairs of the name
\* stay in the list.
ListSetKeepLater(list, name, value) ==
  IF \E i \in 1..Len(list) : list[i][1] = name
  THEN [ list EXCEPT ![CHOOSE i \in 1..Len(list) :
                         list[i][1] = name /\ \A j \in 1..(i - 1) : list[j][1] # name]
                       = Pair(name, value) ]
  ELSE Append(list, Pair(name, value))

\* set(name, value)
ListSet(list, name, value) ==
  LET r == SetLoop(list, 1, FALSE, name, value)
  IN  IF r.found THEN r.list ELSE Append(r.list, Pair(name, value))

\* a.localeCompare(b) < 0 and > 0. The keys the model draws are made of
\* space, "+", digits and lower-case letters, which collate in code order.
RECURSIVE LocaleLess(_, _)
LocaleLess(a, b) ==
  IF b = << >> THEN FALSE
  ELSE IF a = << >> THEN TRUE
  ELSE IF Head(a) # Head(b) THEN CodeOf(Head(a)) < CodeOf(Head(b))
  ELSE LocaleLess(Tail(a), Tail(b))

\* Array.prototype.sort with the key comparator: a stable insertion of each
\* pair after the pairs whose key is not greater.
\* The insertion before the pairs whose key is equal, not after them.
RECURSIVE InsertBeforeEqual(_, _)
InsertBeforeEqual(sorted, pair) ==
  IF sorted = << >> THEN << pair >>
  ELSE IF ~LocaleLess(Head(sorted)[1], pair[1]) THEN << pair >> \o sorted
  ELSE << Head(sorted) >> \o InsertBeforeEqual(Tail(sorted), pair)

RECURSIVE InsertSorted(_, _)
InsertSorted(sorted, pair) ==
  IF sorted = << >> THEN << pair >>
  ELSE IF LocaleLess(pair[1], Head(sorted)[1]) THEN << pair >> \o sorted
  ELSE << Head(sorted) >> \o InsertSorted(Tail(sorted), pair)

RECURSIVE ListSort(_)
ListSort(list) ==
  IF list = << >> THEN << >>
  ELSE InsertSorted(ListSort(Take(list, Len(list) - 1)), list[Len(list)])

(***************************************************************************)
(* url.ts: URL                                                             *)
(***************************************************************************)

\* The private fields of a URL instance; list is the #list of its
\* #searchParams, whose update callback is the instance's #update.
URLObject(parsed, search, list, serialization) ==
  [ protocol |-> parsed.protocol, username |-> parsed.username,
    password |-> parsed.password, hostname |-> parsed.hostname,
    port |-> parsed.port, pathname |-> parsed.pathname, search |-> search,
    hash |-> parsed.hash, list |-> list, serialization |-> serialization ]

\* #serialize()
Serialize(o) ==
  LET protocol == IF o.protocol # << >> /\ ~EndsWith(o.protocol, << ":" >>)
                  THEN o.protocol \o << ":" >> ELSE o.protocol
      auth == IF o.username # << >> \/ o.password # << >>
              THEN o.username
                     \o (IF o.password # << >> THEN << ":" >> \o o.password ELSE << >>)
                     \o << "@" >>
              ELSE << >>
      authority == IF o.hostname # << >>
                   THEN << "/", "/" >> \o auth \o o.hostname
                          \o (IF o.port # << >> THEN << ":" >> \o o.port ELSE << >>)
                   ELSE << >>
      p1 == IF StartsWith(o.pathname, << "/", "/" >>) THEN Drop(o.pathname, 2)
            ELSE o.pathname
      pathname == IF p1 # << >> /\ ~StartsWith(p1, << "/" >>) THEN << "/" >> \o p1
                  ELSE p1
      search == IF o.search # << >> /\ ~StartsWith(o.search, << "?" >>)
                THEN << "?" >> \o o.search ELSE o.search
      hash == IF o.hash # << >> /\ ~StartsWith(o.hash, << "#" >>)
              THEN << "#" >> \o o.hash ELSE o.hash
  IN  protocol \o authority \o pathname \o search \o hash

\* toString(), toJSON() and the href getter return this, and store it in
\* #serialization.
Href(o) == OrElse(o.serialization, Serialize(o))

\* get host
Host(o) == o.hostname \o (IF o.port # << >> THEN << ":" >> \o o.port ELSE << >>)

\* get origin
Origin(o) ==
  IF o.protocol = << >> \/ o.hostname = << >> THEN << "n", "u", "l", "l" >>
  ELSE o.protocol \o << "/", "/" >> \o Host(o)

\* get search
Search(o) == IF StartsWith(o.search, << "?" >>) THEN o.search ELSE << "?" >> \o o.search

\* The record the constructor builds from a base that is a URL instance.
BaseRecord(o) ==
  ParsedURL(o.protocol, o.username, o.password, o.hostname, o.port,
            o.pathname, Search(o), o.hash)

\* The base argument of the constructor: omitted, a string, or a URL instance.
NoBase == [ kind |-> "undefined", str |-> << >>, url |-> NoURL ]

StringBase(str) == [ kind |-> "string", str |-> str, url |-> NoURL ]

URLBase(o) == [ kind |-> "URL", str |-> << >>, url |-> BaseRecord(o) ]

\* if (base): a URL instance, or a string that is not empty.
Truthy(base) == base.kind = "URL" \/ (base.kind = "string" /\ base.str # << >>)

\* The end of the constructor: the fields are stored and the search is parsed
\* into the new searchParams; threw says whether an earlier statement threw.
Stored(threw, parsed, search) ==
  LET q == ParseInto(<< >>, search)
  IN  IF threw \/ q.threw
      THEN [ threw |-> TRUE, url |-> URLObject(NoURL, << >>, << >>, << >>) ]
      ELSE [ threw |-> FALSE,
             url |-> URLObject([ parsed EXCEPT !.pathname =
                                   OrElse(parsed.pathname, << "/" >>) ],
                               search, q.list, << >>) ]

\* The constructor from the parsed input p0 and the parsed base bp on.
Based(p0, bp, base, parsed) ==
  Stored(\/ p0.threw
         \/ Truthy(base) /\ base.kind = "string"
              /\ (bp.threw \/ bp.url.protocol = << >>)
         \/ ~Truthy(base) /\ p0.url.protocol = << >>,
         parsed,
         IF parsed.search # << >> /\ ~StartsWith(parsed.search, << "?" >>)
         THEN << "?" >> \o parsed.search ELSE parsed.search)

\* The record the constructor goes on with: p0 itself, or p0 made absolute
\* with the base bp.
Absolute(p0, bp, base) ==
  Based(p0, bp, base,
        IF ~Truthy(base) THEN p0.url
        ELSE IF p0.url.protocol = << >> /\ p0.url.hostname = << >>
        THEN ResolveURL(bp.url, p0.url)
        ELSE IF p0.url.protocol = << >>
        THEN [ p0.url EXCEPT !.protocol = bp.url.protocol ]
        ELSE p0.url)

\* new URL(input, base), input being url.toString(): threw, and the fields of
\* the new instance.
NewURL(input, base) ==
  Absolute(ParseURL(input),
           IF base.kind = "string" THEN ParseURL(base.str)
           ELSE [ threw |-> FALSE, url |-> base.url ],
           base)

\* #update without its first statement: the search is not stored.
UpdateNoSearch(o, search) == [ o EXCEPT !.serialization = Serialize(o) ]

\* #update(search): the callback the container runs after each mutator.
Update(o, search) ==
  LET o1 == [ o EXCEPT !.search = search ]
  IN  [ o1 EXCEPT !.serialization = Serialize(o1) ]

\* A mutator of o.searchParams that leaves list, followed by #update().
Mutated(o, list) == Update([ o EXCEPT !.list = list ], ParamsToString(list))

\* internal.update without its first statement: the list is not emptied.
InternalUpdateNoReset(o, search) ==
  LET q == ParseInto(o.list, search)
  IN  [ threw |-> q.threw,
        url |-> IF q.list = o.list THEN o ELSE Mutated(o, q.list) ]

\* internal.update(o.searchParams, search): the list is emptied and refilled
\* by #parse, whose every append runs the callback; threw is its URIError.
InternalUpdate(o, search) ==
  LET q == ParseInto(<< >>, search)
  IN  [ threw |-> q.threw,
        url |-> IF q.list = << >> THEN [ o EXCEPT !.list = << >> ]
                ELSE Mutated(o, q.list) ]

\* A field setter: the field is stored and the serialization recomputed.
Reserialized(o) == [ o EXCEPT !.serialization = Serialize(o) ]

\* set search
SearchSet(o, value) ==
  LET search == IF StartsWith(value, << "?" >>) THEN value ELSE << "?" >> \o value
      r == InternalUpdate([ o EXCEPT !.search = search ], search)
  IN  [ threw |-> r.threw,
        url |-> IF r.threw THEN r.url ELSE Reserialized(r.url) ]

\* set href
HrefAssigned(o, n, r) ==
  IF n.threw THEN [ threw |-> TRUE, url |-> o ]
  ELSE [ threw |-> r.threw,
         url |-> IF r.threw THEN r.url
                 ELSE [ r.url EXCEPT !.serialization = n.url.serialization ] ]

\* The fields of newUrl n are copied into o, and the searchParams refilled.
HrefCopied(o, n) ==
  HrefAssigned(o, n,
               InternalUpdate([ n.url EXCEPT !.list = o.list,
                                             !.serialization = o.serialization ],
                              Drop(n.url.search, 1)))

HrefSet(o, value) == HrefCopied(o, NewURL(value, StringBase(Origin(o))))

\* set protocol
ProtocolSet(o, value) ==
  Reserialized([ o EXCEPT !.protocol =
                   IF EndsWith(value, << ":" >>) THEN value ELSE value \o << ":" >> ])

\* set host without its else branch: a value without ":" leaves the port.
HostSetKeepPort(o, value) ==
  LET idx == IndexOf(value, ":")
  IN  Reserialized(IF idx # 0
                   THEN [ o EXCEPT !.hostname = Take(value, idx - 1),
                                   !.port = Drop(value, idx) ]
                   ELSE [ o EXCEPT !.hostname = value ])

\* set host
HostSet(o, value) ==
  LET idx == IndexOf(value, ":")
  IN  Reserialized(IF idx # 0
                   THEN [ o EXCEPT !.hostname = Take(value, idx - 1),
                                   !.port = Drop(value, idx) ]
                   ELSE [ o EXCEPT !.hostname = value, !.port = << >> ])

\* set pathname without its test: the value is stored as it is.
PathnameSetRaw(o, value) == Reserialized([ o EXCEPT !.pathname = value ])

\* set pathname
PathnameSet(o, value) ==
  Reserialized([ o EXCEPT !.pathname =
                   IF StartsWith(value, << "/" >>) THEN value ELSE << "/" >> \o value ])

\* set hash
HashSet(o, value) ==
  Reserialized([ o EXCEPT !.hash =
                   IF StartsWith(value, << "#" >>) THEN value ELSE << "#" >> \o value ])

(***************************************************************************)
(* The state: one URL instance u and the last call made on it              *)
(***************************************************************************)

VARIABLES
  u,          \* the private fields of the URL instance and of its searchParams
  call,       \* the last call: its name, arguments and outcome
  faulted,    \* whether a setter of u has thrown since u was constructed
  ncalls,     \* the number of calls made so far
  containers, \* u.searchParams and a copy of it, once a copy is constructed
  registry,   \* globalThis: what its URL and URLSearchParams properties hold
  walk        \* a forEach in progress: its array, its place, what it passed

vars == << u, call, faulted, ncalls, containers, registry, walk >>

\* The two names install() defines on globalThis.
GlobalNames == { "URL", "URLSearchParams" }

\* globalThis of a runtime that has both classes: each name holds a function,
\* and no definition on globalThis throws.
Native == [ values |-> [ n \in GlobalNames |-> "function" ], faulty |-> { } ]

\* No forEach was called. heap holds the pair arrays, list the references
\* this.#list holds, arr the references of the array the loop iterates
\* (same tells whether this.#list is still that array), idx the number of
\* elements the loop took, passed the references it took and args the pairs
\* it handed to the callback; appended, deleted and shifted record what the
\* callback did.
NoWalk ==
  [ active |-> FALSE, done |-> FALSE, heap |-> << >>, list |-> << >>, arr |-> << >>,
    same |-> TRUE, idx |-> 0, passed |-> << >>, args |-> << >>,
    appended |-> { }, deleted |-> { }, shifted |-> FALSE ]

\* No copy of u.searchParams is constructed: its pairs are the ones in u.list.
NoCopy ==
  [ copied |-> FALSE, heap |-> << >>, orig |-> << >>, copy |-> << >>,
    target |-> "none", notified |-> << >> ]

\* The number of calls made on a URL instance after its construction.
MaxCalls == 2

\* The number of constructor, canParse and parse calls in a row.
MaxNew == 1

Call(op, arg, val, base, isURL, threw, ret) ==
  [ op |-> op, arg |-> arg, val |-> val, base |-> base, isURL |-> isURL,
    threw |-> threw, ret |-> ret ]

\* The strings the calls are given.
AbsA == << "h", ":", "/", "/", "a" >>
AbsFull == << "h", ":", "/", "/", "u", ":", "p", "@", "a", ":", "8", "/", "x", "/", "y",
              "?", "k", "=", "v", "#", "f" >>
AbsNoHost == << "f", ":", "/", "x", "?", "k" >>
AbsDup == << "h", ":", "/", "/", "a", "/", "?", "k", "=", "1", "&", "j", "&", "k", "=", "+" >>
AbsOther == << "g", ":", "/", "/", "c", "/", "y", "?", "j", "=", "2", "#", "e" >>
AbsBare == << "g", ":", "/", "/", "c", "#", "e" >>
AbsBadQuery == << "g", ":", "/", "/", "c", "?", "%" >>
AbsTwoMarks == << "g", ":", "/", "/", "c", "?", "?", "j" >>
AbsSlashes == << "h", ":", "/", "/", "a", "/", "/", "b" >>
RelPath == << "/", "z", "?", "j" >>
RelQuery == << "?", "j", "#", "e" >>

InitInputs == { AbsA, AbsFull, AbsNoHost, AbsDup, AbsSlashes }

Names == { << "k" >>, << "j" >>, << " ", "+" >> }

Values == { << >>, << "1" >>, << "&", "=" >> }

ProtocolValues == { << "g" >>, << "g", ":" >> }
UsernameValues == { << >>, << "w" >> }
PasswordValues == { << >>, << "s" >> }
HostnameValues == { << >>, << "c" >> }
PortValues == { << >>, << "9" >>, << "z" >> }
HostValues == { << "c" >>, << "c", ":", "9" >>, << "c", ":", "9", ":", "z" >> }
PathnameValues == { << >>, << "y" >>, << "/", "y" >> }
HashValues == { << >>, << "e" >>, << "#", "e" >> }
SearchValues == { << >>, << "?" >>, << "j", "=", "2" >>, << "?", "j" >>,
                  << "j", "=", "2", "&", "%" >>, << "%" >>, << "?", "?", "j" >> }
HrefValues == { AbsOther, AbsBare, AbsBadQuery, AbsTwoMarks, AbsNoHost, RelPath, RelQuery }

Init ==
  \E s \in InitInputs :
    /\ u = NewURL(s, NoBase).url
    /\ call = Call("new", s, << >>, NoBase, FALSE, FALSE, "URL")
    /\ faulted = FALSE
    /\ ncalls = 0
    /\ containers = NoCopy
    /\ registry = Native
    /\ walk = NoWalk

\* A setter that cannot throw.
Assign(op, value, o) ==
  /\ ncalls < MaxCalls
  /\ u' = o
  /\ call' = Call(op, value, << >>, NoBase, FALSE, FALSE, "undefined")
  /\ ncalls' = ncalls + 1
  /\ UNCHANGED << faulted, containers, registry, walk >>

\* A setter that can throw: r is its outcome.
AssignOrThrow(op, value, r) ==
  /\ ncalls < MaxCalls
  /\ u' = r.url
  /\ call' = Call(op, value, << >>, NoBase, FALSE, r.threw, "undefined")
  /\ faulted' = (faulted \/ r.threw)
  /\ ncalls' = ncalls + 1
  /\ UNCHANGED << containers, registry, walk >>

SetHref == \E v \in HrefValues : AssignOrThrow("href", v, HrefSet(u, v))

SetProtocol == \E v \in ProtocolValues : Assign("protocol", v, ProtocolSet(u, v))

SetUsername ==
  \E v \in UsernameValues : Assign("username", v, Reserialized([ u EXCEPT !.username = v ]))

SetPassword ==
  \E v \in PasswordValues : Assign("password", v, Reserialized([ u EXCEPT !.password = v ]))

SetHost == \E v \in HostValues : Assign("host", v, HostSet(u, v))

SetHostname ==
  \E v \in HostnameValues : Assign("hostname", v, Reserialized([ u EXCEPT !.hostname = v ]))

SetPort == \E v \in PortValues : Assign("port", v, Reserialized([ u EXCEPT !.port = v ]))

SetPathname == \E v \in PathnameValues : Assign("pathname", v, PathnameSet(u, v))

SetSearch == \E v \in SearchValues : AssignOrThrow("search", v, SearchSet(u, v))

SetHash == \E v \in HashValues : Assign("hash", v, HashSet(u, v))

\* href, toString() or toJSON() is read, which fills the cache.
GetHref ==
  /\ ncalls < MaxCalls
  /\ u' = [ u EXCEPT !.serialization = Href(u) ]
  /\ call' = Call("toString", << >>, << >>, NoBase, FALSE, FALSE, "string")
  /\ ncalls' = ncalls + 1
  /\ UNCHANGED << faulted, containers, registry, walk >>

\* A mutator of u.searchParams
Mutate(op, name, value, list) ==
  /\ ncalls < MaxCalls
  /\ u' = IF ToStringThrows(list) THEN [ u EXCEPT !.list = list ] ELSE Mutated(u, list)
  /\ call' = Call(op, name, value, NoBase, FALSE, ToStringThrows(list), "undefined")
  /\ ncalls' = ncalls + 1
  /\ UNCHANGED << faulted, containers, registry, walk >>

ParamsAppend ==
  \E name \in Names, value \in Values :
    Mutate("append", name, value, ListAppend(u.list, name, value))

ParamsDelete ==
  \E name \in Names :
    Mutate("delete", name, << >>, ListDelete(u.list, name, FALSE, << >>))

ParamsDeleteValue ==
  \E name \in Names, value \in Values :
    Mutate("deleteValue", name, value, ListDelete(u.list, name, TRUE, value))

ParamsSet ==
  \E name \in Names, value \in Values :
    Mutate("set", name, value, ListSet(u.list, name, value))

ParamsSort == Mutate("sort", << >>, << >>, ListSort(u.list))

Next ==
  \/ SetHref
  \/ SetProtocol
  \/ SetUsername
  \/ SetPassword
  \/ SetHost
  \/ SetHostname
  \/ SetPort
  \/ SetPathname
  \/ SetSearch
  \/ SetHash
  \/ GetHref
  \/ ParamsAppend
  \/ ParamsDelete
  \/ ParamsDeleteValue
  \/ ParamsSet
  \/ ParamsSort

Spec == Init /\ [][Next]_vars

(***************************************************************************)
(* The constructor and the static methods                                  *)
(***************************************************************************)

ProtoRel == << "/", "/", "c", "/", "y" >>
ProtoRelFull == << "/", "/", "w", "@", "c", ":", "9", "?", "j" >>
RelSeg == << "z" >>
RelUp == << ".", ".", "/", "z", "#", "e" >>
RelUpRoot == << "/", ".", "." >>
RelDot == << ".", "/", "?", "j" >>
RelBack == << "z", "\\", "w" >>
RelFrag == << "#", "e" >>
RelScheme == << "m", ":", "x" >>
Empty == << >>
BadFrag == << "#", "\n" >>
AbsDir == << "h", ":", "/", "/", "a", "/", "d", "/", "?", "q", "#", "g" >>

InputStrings ==
  { AbsA, AbsFull, AbsNoHost, AbsBadQuery, ProtoRel, ProtoRelFull, RelPath,
    RelSeg, RelUp, RelUpRoot, RelDot, RelBack, RelQuery, RelFrag, RelScheme,
    Empty, BadFrag }

BaseStrings == { Empty, AbsFull, AbsDir, AbsNoHost, RelPath, BadFrag }

\* The first argument: a string, or the URL instance u itself, which the
\* constructor turns into a string with toString().
InputArgs ==
  { [ isURL |-> FALSE, str |-> s ] : s \in InputStrings }
    \cup { [ isURL |-> TRUE, str |-> Href(u) ] }

\* The second argument: omitted, a string, or the URL instance u itself.
BaseArgs == { NoBase, URLBase(u) } \cup { StringBase(s) : s \in BaseStrings }

\* u after its toString() was called, when it was the first argument.
Stringified(i) == IF i.isURL THEN [ u EXCEPT !.serialization = Href(u) ] ELSE u

\* u = r.url ?? u, r being the outcome of new URL(i, b) inside op, which
\* throws when rethrows and returns none otherwise.
Construct(op, i, b, r, rethrows, none) ==
  /\ ncalls < MaxNew
  /\ u' = IF r.threw THEN Stringified(i) ELSE r.url
  /\ call' = Call(op, i.str, << >>, b, i.isURL, rethrows /\ r.threw,
                  IF r.threw THEN none ELSE "URL")
  /\ faulted' = (faulted /\ r.threw)
  /\ ncalls' = ncalls + 1
  /\ UNCHANGED << containers, registry, walk >>

\* u = new URL(input, base): on a throw u stays the instance it was.
CallNew ==
  \E i \in InputArgs, b \in BaseArgs :
    Construct("new", i, b, NewURL(i.str, b), TRUE, "undefined")

\* URL.canParse(input, base)
CallCanParse ==
  \E i \in InputArgs, b \in BaseArgs :
    /\ ncalls < MaxNew
    /\ call' = Call("canParse", i.str, << >>, b, i.isURL, FALSE,
                    IF i.isURL THEN "false"
                    ELSE IF NewURL(i.str, b).threw THEN "false" ELSE "true")
    /\ ncalls' = ncalls + 1
    /\ UNCHANGED << u, faulted, containers, registry, walk >>

\* u = URL.parse(input, base) ?? u
CallParse ==
  \E i \in InputArgs, b \in BaseArgs :
    Construct("parse", i, b, NewURL(i.str, b), FALSE, "null")

NextNew ==
  \/ CallNew
  \/ CallCanParse
  \/ CallParse

SpecNew == Init /\ [][NextNew]_vars

(***************************************************************************)
(* resolveURL called on records                                            *)
(***************************************************************************)

\* The base records: what parseURL returns for a string with a scheme, and
\* the record the constructor builds from the instance u.
BaseRecords ==
  { ParseURL(s).url : s \in { AbsA, AbsFull, AbsDir, AbsNoHost } } \cup { BaseRecord(u) }

\* The relative records: what parseURL returns for the input strings, and
\* partial records, whose missing fields read as empty.
RelativeRecords ==
  { ParseURL(s).url : s \in InputStrings \ { BadFrag } }
    \cup { NoURL, [ NoURL EXCEPT !.search = << "?", "j" >> ],
           [ NoURL EXCEPT !.hash = << "#", "e" >> ] }

\* resolveURL(base, relative)
CallResolve ==
  \E base \in BaseRecords, relative \in RelativeRecords :
    /\ ncalls < MaxNew
    /\ call' = Call("resolveURL", relative, << >>,
                    [ kind |-> "record", str |-> << >>, url |-> base ],
                    FALSE, FALSE, ResolveURL(base, relative))
    /\ ncalls' = ncalls + 1
    /\ UNCHANGED << u, faulted, containers, registry, walk >>

NextResolve == CallResolve

SpecResolve == Init /\ [][NextResolve]_vars

(***************************************************************************)
(* u.searchParams and a copy of it                                         *)
(*                                                                         *)
(* A #list is an array of references to two-element arrays. heap holds the *)
(* two-element arrays, and a #list is the sequence of their places in heap,*)
(* so that two lists can hold the same array.                              *)
(***************************************************************************)

\* The pairs a #list of references holds.
Deref(heap, ids) == [ i \in 1..Len(ids) |-> heap[ids[i]] ]

\* this.#list.push([name, value])
HeapAppend(heap, ids, name, value) ==
  [ heap |-> Append(heap, Pair(name, value)), ids |-> Append(ids, Len(heap) + 1) ]

\* this.#list = this.#list.filter(...): a new array of the same references.
HeapDelete(heap, ids, name, hasValue, value) ==
  [ heap |-> heap,
    ids |-> SelectSeq(ids, LAMBDA id : heap[id][1] # name
                                         \/ (hasValue /\ heap[id][2] # value)) ]

\* The place in ids of the first pair named name, 0 when there is none.
FirstNamed(heap, ids, name) ==
  IF \E i \in 1..Len(ids) : heap[ids[i]][1] = name
  THEN CHOOSE i \in 1..Len(ids) :
         heap[ids[i]][1] = name /\ \A j \in 1..(i - 1) : heap[ids[j]][1] # name
  ELSE 0

\* The loop of set(name, value), first being the place of the first pair of
\* the name: this.#list[i][1] = value writes into the array the list refers
\* to, and splice takes the later references of the name out of the list.
HeapSet(heap, ids, name, value, first) ==
  IF first = 0 THEN HeapAppend(heap, ids, name, value)
  ELSE [ heap |-> [ heap EXCEPT ![ids[first]] = Pair(heap[ids[first]][1], value) ],
         ids |-> Take(ids, first) \o SelectSeq(Drop(ids, first),
                                                LAMBDA id : heap[id][1] # name) ]

\* this.#list.sort(...): the references are reordered, by the keys they
\* refer to.
HeapSort(heap, ids) ==
  [ heap |-> heap,
    ids |-> LET sorted == ListSort([ i \in 1..Len(ids) |->
                                      << heap[ids[i]][1], heap[ids[i]][2], ids[i] >> ])
            IN  [ i \in 1..Len(ids) |-> sorted[i][3] ] ]

\* #update() called twice in a row.
NotifyTwice(hasCallback, list) ==
  IF hasCallback THEN << ParamsToString(list), ParamsToString(list) >> ELSE << >>

\* #update(): the strings the registered callback is called with.
Notify(hasCallback, list) ==
  IF hasCallback THEN << ParamsToString(list) >> ELSE << >>

\* The URL instance o after its #update was called with each of the strings.
RECURSIVE Notified(_, _)
Notified(o, strings) ==
  IF strings = << >> THEN o ELSE Notified(Update(o, Head(strings)), Tail(strings))

\* The names and values the two containers are given.
CopyNames == { << "k" >>, << "j" >> }

CopyValues == { << >>, << "1" >> }

Targets == { "orig", "copy" }

\* copy = new URLSearchParams(u.searchParams): init.#list.slice()
CopyParams ==
  /\ ~containers.copied
  /\ containers' = [ copied |-> TRUE, heap |-> u.list,
                     orig |-> [ i \in 1..Len(u.list) |-> i ],
                     copy |-> [ i \in 1..Len(u.list) |-> i ],
                     target |-> "none", notified |-> << >> ]
  /\ call' = Call("copy", << >>, << >>, NoBase, FALSE, FALSE, "URLSearchParams")
  /\ UNCHANGED << u, faulted, ncalls, registry, walk >>

\* A mutator of the container t that leaves the heap and the list of r,
\* followed by #update(): only u.searchParams has a callback registered.
MutateContainer(op, name, value, t, r) ==
  /\ containers.copied
  /\ ncalls < MaxCalls
  /\ containers' = [ containers EXCEPT !.heap = r.heap, ![t] = r.ids, !.target = t,
                                       !.notified = Notify(t = "orig", Deref(r.heap, r.ids)) ]
  /\ u' = Notified([ u EXCEPT !.list = Deref(containers'.heap, containers'.orig) ],
                   containers'.notified)
  /\ call' = Call(op, name, value, NoBase, FALSE, FALSE, "undefined")
  /\ ncalls' = ncalls + 1
  /\ UNCHANGED << faulted, registry, walk >>

ContainerAppend ==
  \E t \in Targets, name \in CopyNames, value \in CopyValues :
    MutateContainer("append", name, value, t,
                    HeapAppend(containers.heap, containers[t], name, value))

ContainerDelete ==
  \E t \in Targets, name \in CopyNames :
    MutateContainer("delete", name, << >>, t,
                    HeapDelete(containers.heap, containers[t], name, FALSE, << >>))

ContainerDeleteValue ==
  \E t \in Targets, name \in CopyNames, value \in CopyValues :
    MutateContainer("deleteValue", name, value, t,
                    HeapDelete(containers.heap, containers[t], name, TRUE, value))

ContainerSet ==
  \E t \in Targets, name \in CopyNames, value \in CopyValues :
    MutateContainer("set", name, value, t,
                    HeapSet(containers.heap, containers[t], name, value,
                            FirstNamed(containers.heap, containers[t], name)))

ContainerSort ==
  \E t \in Targets :
    MutateContainer("sort", << >>, << >>, t, HeapSort(containers.heap, containers[t]))

NextCopy ==
  \/ CopyParams
  \/ ContainerAppend
  \/ ContainerDelete
  \/ ContainerDeleteValue
  \/ ContainerSet
  \/ ContainerSort

SpecCopy == Init /\ [][NextCopy]_vars

(***************************************************************************)
(* A container of its own: construction and toString                       *)
(***************************************************************************)

\* The keys and values of the containers.
ParamStrings ==
  { << >>, << "a", " ", "b" >>, << "c", "+", "d" >>, << "&", "=" >>,
    << "%", "?", "#" >>, << LoneSurrogate >> }

ParamPairs == { Pair(k, v) : k \in ParamStrings, v \in ParamStrings }

\* The containers: the pair sequences of no, one and two pairs.
PairLists ==
  { << >> } \cup { << p >> : p \in ParamPairs }
    \cup { << p, q >> : p \in ParamPairs, q \in ParamPairs }

\* The strings a container is constructed from.
QueryStrings ==
  { << >>, << "?" >>, << "?", "a", "=", "1", "=", "2" >>,
    << "b", "=", "2", "&", "a", "=", "1", "&", "a", "=", "3" >>,
    << "a", "+", "b", "=", "c", "+", "d" >>, << "a", "&", "&", "b" >>,
    << "=", "x" >>, << "?", "?", "a" >>, << "a", "=", "%", "2", "B" >>,
    << "%" >>, << "a", "=", "%", "2" >> }

\* c.toString(), c being a container that holds list.
ToStringOf(list) ==
  IF ToStringThrows(list) THEN [ threw |-> TRUE, val |-> << >> ]
  ELSE [ threw |-> FALSE, val |-> ParamsToString(list) ]

\* new URLSearchParams(c.toString()), s being the outcome of c.toString().
Reparsed(s) ==
  IF s.threw THEN [ threw |-> TRUE, list |-> << >> ] ELSE ParseInto(<< >>, s.val)

\* A call that leaves u alone: r.threw is its exception, ret what it returns.
Pure(op, arg, threw, ret) ==
  /\ ncalls < MaxNew
  /\ call' = Call(op, arg, << >>, NoBase, FALSE, threw, ret)
  /\ ncalls' = ncalls + 1
  /\ UNCHANGED << u, faulted, containers, registry, walk >>

\* c.toString()
CallToString ==
  \E list \in PairLists :
    Pure("params.toString", list, ToStringOf(list).threw, ToStringOf(list).val)

\* new URLSearchParams(c.toString())
CallReparse ==
  \E list \in PairLists :
    Pure("reparse", list, Reparsed(ToStringOf(list)).threw,
         Reparsed(ToStringOf(list)).list)

\* new URLSearchParams(init) for a string init
CallFromString ==
  \E init \in QueryStrings :
    Pure("fromString", init, ParseInto(<< >>, init).threw, ParseInto(<< >>, init).list)

\* The elements an iterable initializer yields: arrays of zero to three
\* strings.
ElementStrings == { << >>, << "a" >> }

Elements ==
  { << >> } \cup { << k >> : k \in ElementStrings }
    \cup { << k, v >> : k \in ElementStrings, v \in ElementStrings }
    \cup { << k, v, w >> : k \in ElementStrings, v \in ElementStrings, w \in ElementStrings }

Iterables ==
  { << >> } \cup { << e >> : e \in Elements } \cup { << e, f >> : e \in Elements, f \in Elements }

\* The own properties of an object initializer, as pairs of strings.
Objects == { << >>, << Pair(<< "a" >>, << "1" >>) >>,
             << Pair(<< "b" >>, << >>), Pair(<< "a" >>, << "1" >>) >> }

\* The loop of the constructor over an iterable: it throws the TypeError at
\* the first element whose length is not 2 and pushes [pair[0], pair[1]]
\* otherwise.
RECURSIVE PushPairs(_, _)
PushPairs(list, init) ==
  IF init = << >> THEN [ threw |-> FALSE, list |-> list ]
  ELSE IF Len(Head(init)) # 2 THEN [ threw |-> TRUE, list |-> << >> ]
  ELSE PushPairs(Append(list, Pair(Head(init)[1], Head(init)[2])), Tail(init))

\* new URLSearchParams(init): kind is what the constructor tests of init
\* ("undefined", "null", "string", "container", "iterable", "object", or a
\* primitive type), val what init holds.
NewParams(kind, val) ==
  IF kind \in { "undefined", "null" } THEN ParseInto(<< >>, << >>)
  ELSE IF kind = "string" THEN ParseInto(<< >>, val)
  ELSE IF kind = "container" THEN [ threw |-> FALSE, list |-> val ]
  ELSE IF kind = "iterable" THEN PushPairs(<< >>, val)
  ELSE IF kind = "object" THEN [ threw |-> FALSE, list |-> val ]
  ELSE [ threw |-> TRUE, list |-> << >> ]

\* A constructor call, r being its outcome.
Constructed(op, arg, r) == Pure(op, arg, r.threw, r.list)

\* new URLSearchParams(), new URLSearchParams(undefined), new URLSearchParams(null)
CallFromNothing ==
  \E kind \in { "undefined", "null" } :
    Constructed("fromNothing", kind, NewParams(kind, << >>))

\* new URLSearchParams(init) for an array of arrays
CallFromPairs ==
  \E init \in Iterables : Constructed("fromPairs", init, NewParams("iterable", init))

\* new URLSearchParams(init) for a plain object
CallFromObject ==
  \E init \in Objects : Constructed("fromObject", init, NewParams("object", init))

\* new URLSearchParams(init) for a number, a boolean, a bigint, a function
CallFromOther ==
  \E kind \in { "number", "boolean", "bigint", "function" } :
    Constructed("fromOther", kind, NewParams(kind, << >>))

\* u.searchParams.append(name, "") for any string name
OwnedAppend ==
  \E name \in ParamStrings : Mutate("append", name, << >>, ListAppend(u.list, name, << >>))

NextParams ==
  \/ CallToString
  \/ CallReparse
  \/ CallFromString
  \/ CallFromNothing
  \/ CallFromPairs
  \/ CallFromObject
  \/ CallFromOther
  \/ OwnedAppend

SpecParams == Init /\ [][NextParams]_vars

(***************************************************************************)
(* install(): the two definitions on globalThis                            *)
(***************************************************************************)

\* globalThis[name] is "absent", a "function" of the runtime or of the caller,
\* an "other" value that is not a function, or the "ponyfill" class.
\* The three results; error names the definition whose fault it carries.
Skipped == [ type |-> "skipped", data |-> { }, error |-> "none" ]
Failure(name) == [ type |-> "failure", data |-> { }, error |-> name ]
Success(names) == [ type |-> "success", data |-> names, error |-> "none" ]

\* installURL() and installURLSearchParams(): skipped when typeof
\* globalThis[name] is "function"; otherwise the property is defined, and the
\* exception of the definition is caught and returned.
TryDefine(reg, name) ==
  IF reg.values[name] \in { "function", "ponyfill" } THEN [ reg |-> reg, ret |-> Skipped ]
  ELSE IF name \in reg.faulty THEN [ reg |-> reg, ret |-> Failure(name) ]
  ELSE [ reg |-> [ reg EXCEPT !.values[name] = "ponyfill" ], ret |-> Success({ name }) ]

\* The rest of install() after a == installURL() did not fail, b being
\* installURLSearchParams() on the registry a left.
Aggregate(a, b) ==
  IF b.ret.type = "failure" THEN b
  ELSE IF a.ret.type = "skipped" /\ b.ret.type = "skipped" THEN [ reg |-> b.reg, ret |-> Skipped ]
  ELSE [ reg |-> b.reg, ret |-> Success(a.ret.data \cup b.ret.data) ]

\* install(), a being the outcome of installURL().
InstallAfter(a) ==
  IF a.ret.type = "failure" THEN a ELSE Aggregate(a, TryDefine(a.reg, "URLSearchParams"))

Install(reg) == InstallAfter(TryDefine(reg, "URL"))

\* A call of one of the three functions, r being its outcome.
Installed(op, r) ==
  /\ ncalls < MaxCalls
  /\ registry' = r.reg
  /\ call' = Call(op, << >>, << >>, NoBase, FALSE, FALSE, r.ret)
  /\ ncalls' = ncalls + 1
  /\ UNCHANGED << u, faulted, containers, walk >>

CallInstallURL == Installed("installURL", TryDefine(registry, "URL"))

CallInstallURLSearchParams ==
  Installed("installURLSearchParams", TryDefine(registry, "URLSearchParams"))

CallInstall == Installed("install", Install(registry))

\* What the caller does to globalThis between the calls.
Environment(op, name, reg) ==
  /\ registry' = reg
  /\ call' = Call(op, name, << >>, NoBase, FALSE, FALSE, "undefined")
  /\ UNCHANGED << u, faulted, ncalls, containers, walk >>

\* delete globalThis[name]
DeleteGlobal ==
  \E name \in GlobalNames :
    /\ registry.values[name] # "absent"
    /\ Environment("delete", name, [ registry EXCEPT !.values[name] = "absent" ])

\* globalThis[name] = value, for a function or for any other value
AssignGlobal ==
  \E name \in GlobalNames, value \in { "function", "other" } :
    /\ registry.values[name] # value
    /\ Environment("assign", name, [ registry EXCEPT !.values[name] = value ])

\* The definition of the names in faulty throws from now on (a frozen
\* globalThis, or the hook of the tests).
SetDefineProperty ==
  \E faulty \in SUBSET GlobalNames :
    /\ registry.faulty # faulty
    /\ Environment("setDefineProperty", faulty, [ registry EXCEPT !.faulty = faulty ])

NextInstall ==
  \/ CallInstallURL
  \/ CallInstallURLSearchParams
  \/ CallInstall
  \/ DeleteGlobal
  \/ AssignGlobal
  \/ SetDefineProperty

SpecInstall == Init /\ [][NextInstall]_vars

(***************************************************************************)
(* forEach with a callback that mutates the container                      *)
(***************************************************************************)

\* The containers forEach is called on, and what the callback passes to the
\* mutators.
EachLists ==
  { << >>,
    << Pair(<< "a" >>, << "1" >>), Pair(<< "b" >>, << "2" >>) >>,
    << Pair(<< "b" >>, << "2" >>), Pair(<< "a" >>, << "1" >>) >>,
    << Pair(<< "a" >>, << "1" >>), Pair(<< "a" >>, << "2" >>), Pair(<< "b" >>, << "3" >>) >> }

EachNames == { << "a" >>, << "b" >> }

EachValue == << "9" >>

\* The references a sequence holds.
Refs(ids) == { ids[i] : i \in 1..Len(ids) }

\* p.forEach(callback) on a container p that no URL owns: for-of takes the
\* iterator of the array this.#list refers to.
StartEach ==
  \E list \in EachLists :
    /\ walk = NoWalk
    /\ walk' = [ NoWalk EXCEPT !.active = TRUE, !.heap = list,
                                !.list = [ i \in 1..Len(list) |-> i ],
                                !.arr = [ i \in 1..Len(list) |-> i ] ]
    /\ call' = Call("forEach", list, << >>, NoBase, FALSE, FALSE, "undefined")
    /\ UNCHANGED << u, faulted, ncalls, containers, registry >>

\* One turn of the loop: the next element of the iterated array is handed
\* to the callback, which leaves this.#list as r (inPlace: in the array it
\* was, otherwise in a new array).
Turn(w, r, inPlace, sorted) ==
  [ w EXCEPT !.idx = w.idx + 1,
             !.passed = Append(w.passed, w.arr[w.idx + 1]),
             !.args = Append(w.args, w.heap[w.arr[w.idx + 1]]),
             !.heap = r.heap,
             !.list = r.ids,
             !.arr = IF w.same /\ inPlace THEN r.ids ELSE w.arr,
             !.same = w.same /\ inPlace,
             !.appended = w.appended \cup (Refs(r.ids) \ Refs(w.list)),
             !.deleted = w.deleted \cup (Refs(w.list) \ Refs(r.ids)),
             !.shifted = \/ w.shifted
                         \/ sorted
                         \/ (Refs(w.list) \ Refs(r.ids)) \cap Refs(Take(w.arr, w.idx + 1)) # { } ]

\* The callback returns without touching the container.
CallbackNone ==
  /\ walk.active
  /\ walk.idx < Len(walk.arr)
  /\ walk' = Turn(walk, [ heap |-> walk.heap, ids |-> walk.list ], TRUE, FALSE)
  /\ UNCHANGED << u, call, faulted, ncalls, containers, registry >>

\* The callback calls one mutator of the container.
Callback(op, name, value, r, inPlace) ==
  /\ walk.active
  /\ walk.idx < Len(walk.arr)
  /\ ncalls < MaxCalls
  /\ walk' = Turn(walk, r, inPlace, op = "sort")
  /\ call' = Call(op, name, value, NoBase, FALSE, FALSE, "undefined")
  /\ ncalls' = ncalls + 1
  /\ UNCHANGED << u, faulted, containers, registry >>

CallbackAppend ==
  \E name \in EachNames :
    Callback("append", name, EachValue, HeapAppend(walk.heap, walk.list, name, EachValue), TRUE)

CallbackDelete ==
  \E name \in EachNames :
    Callback("delete", name, << >>, HeapDelete(walk.heap, walk.list, name, FALSE, << >>), FALSE)

CallbackSet ==
  \E name \in EachNames :
    Callback("set", name, EachValue,
             HeapSet(walk.heap, walk.list, name, EachValue,
                     FirstNamed(walk.heap, walk.list, name)), TRUE)

CallbackSort == Callback("sort", << >>, << >>, HeapSort(walk.heap, walk.list), TRUE)

\* The iterator is exhausted and forEach returns.
EndEach ==
  /\ walk.active
  /\ walk.idx >= Len(walk.arr)
  /\ walk' = [ walk EXCEPT !.active = FALSE, !.done = TRUE ]
  /\ UNCHANGED << u, call, faulted, ncalls, containers, registry >>

NextEach ==
  \/ StartEach
  \/ CallbackNone
  \/ CallbackAppend
  \/ CallbackDelete
  \/ CallbackSet
  \/ CallbackSort
  \/ EndEach

SpecEach == Init /\ [][NextEach]_vars

(***************************************************************************)
(* normalize on its own, and paths with dot segments in the constructor    *)
(***************************************************************************)

\* The longest path normalize is given.
MaxPath == 4

PathChars == { "/", "\\", ".", "a" }

\* Every string of PathChars up to MaxPath characters.
RECURSIVE PathsOf(_)
PathsOf(n) ==
  IF n = 0 THEN { << >> }
  ELSE PathsOf(n - 1) \cup { Append(p, c) : p \in { q \in PathsOf(n - 1) : Len(q) = n - 1 },
                                            c \in PathChars }

Paths == PathsOf(MaxPath)

\* normalize(path)
CallNormalize ==
  \E path \in Paths : Pure("normalize", path, FALSE, Normalize(path))

\* References without scheme and authority, and bases with and without dot
\* segments in their path.
RelUpUp == << ".", ".", "/", ".", ".", "/", ".", ".", "/", "z" >>
RelUpOnly == << ".", "." >>
AbsUp == << "h", ":", "/", "/", "a", "/", "x", "/", ".", ".", "/", "y" >>

PathReferences == { RelUp, RelUpUp, RelUpOnly, RelUpRoot, RelDot, RelSeg, RelQuery, RelFrag }

PathBases == { AbsA, AbsFull, AbsDir, AbsUp }

\* u = new URL(reference, base)
CallNewReference ==
  \E reference \in PathReferences, base \in PathBases :
    Construct("new", [ isURL |-> FALSE, str |-> reference ], StringBase(base),
              NewURL(reference, StringBase(base)), TRUE, "undefined")

NextPath ==
  \/ CallNormalize
  \/ CallNewReference

SpecPath == Init /\ [][NextPath]_vars

(***************************************************************************)
(* Properties                                                              *)
(***************************************************************************)

Mutators == { "append", "delete", "deleteValue", "set", "sort" }

\* The eight fields a caller reads from a URL instance.
Fields(o) ==
  ParsedURL(o.protocol, o.username, o.password, o.hostname, o.port,
            o.pathname, Search(o), o.hash)

\* The record of the base a constructor call was given.
BaseOf(c) == IF c.base.kind = "string" THEN ParseURL(c.base.str).url ELSE c.base.url

C3_SearchSetterReplacesPairs ==
  (call.op = "search" /\ ~call.threw) =>
    /\ u.list = ParseInto(<< >>, call.arg).list
    /\ StartsWith(Search(u), << "?" >>)

C3_Witness ==
  /\ call.op = "search"
  /\ ~call.threw
  /\ call.arg = << "j", "=", "2" >>
  /\ u.list = << Pair(<< "j" >>, << "2" >>) >>

\* u has no query: it was constructed from a string without "?", or a delete
\* has just removed the last pair of u.searchParams.
NoQuery ==
  \/ ncalls = 0 /\ IndexOf(call.arg, "?") = 0
  \/ call.op \in { "delete", "deleteValue" } /\ u.list = << >>

\* C4: u.search is the empty string when u has no query, and begins with "?"
\* otherwise.
C4_SearchEmptyWithoutQuery ==
  IF NoQuery THEN Search(u) = << >> ELSE StartsWith(Search(u), << "?" >>)

\* The last call succeeded and left u with the fields and the pairs of the
\* instance n.url, when there is one.
SameAs(n) ==
  ~n.threw => (~call.threw /\ Fields(u) = Fields(n.url) /\ u.list = n.url.list)

\* C5: u.href = s, for s an absolute URL string, succeeds and leaves u with
\* the fields and the pairs of new URL(s).
C5_HrefSetterMatchesConstructor == call.op = "href" => SameAs(NewURL(call.arg, NoBase))

\* C6: in every reachable state href, toString() and toJSON(), which all
\* return Href(u), are the serialization of the current fields.
C6_SerializationNeverStale == Href(u) = Serialize(u)

\* The outcome p of parseURL has no scheme.
NoScheme(p) == p.threw \/ p.url.protocol = << >>

\* The constructor is bound to fail: no base and an input without a scheme,
\* or a string base that does not parse to a record with a scheme.
MustFail(c) ==
  \/ c.base.kind = "undefined" /\ NoScheme(ParseURL(c.arg))
  \/ c.base.kind = "string" /\ NoScheme(ParseURL(c.base.str))

\* C7: new URL fails, and canParse returns false, when there is no base and
\* the input has no scheme, and when a string base has no scheme.
C7_FailsWithoutScheme ==
  /\ (call.op = "new" /\ ncalls > 0 /\ MustFail(call)) => call.threw
  /\ (call.op = "canParse" /\ MustFail(call)) => call.ret = "false"

\* The last call, when it is a canParse or a parse, returned what the
\* outcome n of the constructor calls for.
Agrees(n) ==
  /\ call.op = "canParse" => (call.ret = "true" <=> ~n.threw)
  /\ call.op = "parse" =>
       /\ ~call.threw
       /\ (call.ret = "URL" <=> ~n.threw)
       /\ (call.ret = "null" <=> n.threw)

\* C8: canParse(input, base) is true exactly when new URL(input, base) does
\* not fail; parse(input, base) never throws and returns a URL exactly then.
C8_CanParseAndParseAgreeWithNew == Agrees(NewURL(call.arg, call.base))

\* The path, query and fragment of an input, read off the string.
InputParts(input) == TailGroups(input, FALSE)

\* The input has neither a scheme nor an authority.
IsRelative(input) ==
  ~AbsoluteMatch(input).matched /\ ~ProtocolRelativeMatch(input).matched

\* A constructor call that was given a base and returned a URL.
Resolved == call.op = "new" /\ ncalls > 0 /\ Truthy(call.base) /\ ~call.threw

\* u is the input parts in, whose path is not empty, resolved against base.
PathResolved(in, base) ==
  in.pathname # << >> =>
    /\ u.protocol = base.protocol
    /\ u.username = base.username
    /\ u.password = base.password
    /\ u.hostname = base.hostname
    /\ u.port = base.port
    /\ Search(u) = in.search
    /\ u.hash = in.hash
    /\ u.pathname =
         IF StartsWith(in.pathname, << "/" >>) THEN Normalize(in.pathname)
         ELSE Normalize(Take(base.pathname, LastIndexOf(base.pathname, "/"))
                          \o in.pathname)

\* C9: for a relative input with a non-empty path, new URL(input, base) has
\* the scheme, user, password, host and port of the base, the query and the
\* fragment of the input, and the normalized input path, merged with the
\* base path when it does not start with "/".
C9_RelativePathResolution ==
  (Resolved /\ IsRelative(call.arg)) => PathResolved(InputParts(call.arg), BaseOf(call))

\* u is the input parts in, whose path is empty, resolved against base.
PathInherited(in, base) ==
  in.pathname = << >> =>
    /\ u.pathname = base.pathname
    /\ in.search = << >> => Search(u) = base.search
    /\ u.hash = in.hash

\* C10: for an input with an empty path, new URL(input, base) has the path of
\* the base, the query of the base too when the input has none, and the
\* fragment of the input.
C10_EmptyPathInheritsBase ==
  (Resolved /\ IsRelative(call.arg)) => PathInherited(InputParts(call.arg), BaseOf(call))

\* u has the scheme of base and everything else from the groups m of a
\* protocol-relative input.
SchemeInherited(m, base) ==
  m.matched =>
    /\ u.protocol = base.protocol
    /\ u.username = m.url.username
    /\ u.password = m.url.password
    /\ u.hostname = m.url.hostname
    /\ u.port = m.url.port
    /\ u.pathname = m.url.pathname
    /\ Search(u) = m.url.search
    /\ u.hash = m.url.hash

\* C11: for an input that starts with "//" and carries a host,
\* new URL(input, base) has the scheme of the base, and the user, password,
\* host, port, path, query and fragment of the input.
C11_ProtocolRelativeTakesOnlyScheme ==
  Resolved => SchemeInherited(ProtocolRelativeMatch(call.arg), BaseOf(call))

\* C12: u = new URL(s) for an absolute string s, followed by
\* v = new URL(u.toString()), gives a v that agrees with u on protocol,
\* username, password, hostname, port, pathname, search and hash.
C12_RoundTripKeepsFields ==
  [][(ncalls = 0 /\ call'.op = "new" /\ call'.isURL /\ ~Truthy(call'.base))
       => (~call'.threw /\ Fields(u') = Fields(u))]_vars

\* C13: the record resolveURL returns for a base with a scheme has a scheme
\* and, when it has a host, a pathname that begins with "/".
C13_ResolvedRecordWellFormed ==
  (call.op = "resolveURL" /\ call.base.url.protocol # << >>) =>
    /\ call.ret.protocol # << >>
    /\ call.ret.hostname # << >> => StartsWith(call.ret.pathname, << "/" >>)

\* C14: in every reachable state the port of u is empty or made of decimal
\* digits only.
C14_PortIsNumericOrEmpty == \A i \in 1..Len(u.port) : u.port[i] \in Digit

\* C15: right after an assignment, protocol is the value with ":" appended
\* when it did not end with one, pathname the value with "/" prepended when it
\* did not start with one, hash the value with "#" prepended when it did not
\* start with one, each being the value itself otherwise; and search begins
\* with "?" after a value that did not.
C15_SettersAddDelimiters ==
  /\ call.op = "protocol" =>
       /\ ~EndsWith(call.arg, << ":" >>) => u.protocol = call.arg \o << ":" >>
       /\ EndsWith(call.arg, << ":" >>) => u.protocol = call.arg
  /\ call.op = "pathname" =>
       /\ ~StartsWith(call.arg, << "/" >>) => u.pathname = << "/" >> \o call.arg
       /\ StartsWith(call.arg, << "/" >>) => u.pathname = call.arg
  /\ call.op = "hash" =>
       /\ ~StartsWith(call.arg, << "#" >>) => u.hash = << "#" >> \o call.arg
       /\ StartsWith(call.arg, << "#" >>) => u.hash = call.arg
  /\ (call.op = "search" /\ ~StartsWith(call.arg, << "?" >>)) =>
       StartsWith(Search(u), << "?" >>)

C15_Witness ==
  /\ call.op = "pathname"
  /\ call.arg = << "y" >>
  /\ u.pathname = << "/", "y" >>

\* The parts of a host value v: what comes before its first ":" and what
\* comes after it.
HostPart(v) == IF IndexOf(v, ":") = 0 THEN v ELSE Take(v, IndexOf(v, ":") - 1)

PortPart(v) == IF IndexOf(v, ":") = 0 THEN << >> ELSE Drop(v, IndexOf(v, ":"))

\* C16: u.host = v sets hostname to the part of v before its first ":" and
\* port to the part after it, or to v and the empty string when v has no ":",
\* and leaves protocol, username, password, pathname, search, hash and the
\* pairs of searchParams as they were.
C16_HostSetterSplitsAndKeepsRest ==
  [][call'.op = "host" =>
       /\ u'.hostname = HostPart(call'.arg)
       /\ u'.port = PortPart(call'.arg)
       /\ u'.protocol = u.protocol
       /\ u'.username = u.username
       /\ u'.password = u.password
       /\ u'.pathname = u.pathname
       /\ Search(u') = Search(u)
       /\ u'.hash = u.hash
       /\ u'.list = u.list]_vars

C16_Witness ==
  /\ call.op = "host"
  /\ call.arg = << "c" >>
  /\ u.hostname = << "c" >>
  /\ u.port = << >>
  /\ u.username = << "u" >>
  /\ u.list # << >>

\* The pairs of u.searchParams and of its copy.
OrigPairs == Deref(containers.heap, containers.orig)

CopyPairs == Deref(containers.heap, containers.copy)

\* C17: once the copy is constructed, a mutator of the copy leaves the pairs
\* of u.searchParams and u.search as they were, and a mutator of
\* u.searchParams leaves the pairs of the copy as they were.
C17_CopyIsIndependent ==
  [][(containers.copied /\ call'.op \in Mutators) =>
       /\ containers'.target = "copy" => (OrigPairs' = OrigPairs /\ Search(u') = Search(u))
       /\ containers'.target = "orig" => CopyPairs' = CopyPairs]_vars

Places(list, name) == { i \in 1..Len(list) : list[i][1] = name }

\* The pairs of list whose key is not name, in their order.
Others(list, name) == SelectSeq(list, LAMBDA pair : pair[1] # name)

\* The least place of a non-empty set of places.
First(places) == CHOOSE i \in places : \A j \in places : i <= j

\* C19: set(k, v) on a container that has the key k leaves one pair of key
\* k, at the place of the former first one and with the value v, and the
\* pairs of the other keys as they were and in their order; on a container
\* without k it appends (k, v) and changes nothing else.
C19_SetReplacesFirstAndDropsRest ==
  [][call'.op = "set" =>
       IF Places(u.list, call'.arg) = { }
       THEN u'.list = Append(u.list, Pair(call'.arg, call'.val))
       ELSE /\ Places(u'.list, call'.arg) = { First(Places(u.list, call'.arg)) }
            /\ u'.list[First(Places(u.list, call'.arg))] = Pair(call'.arg, call'.val)
            /\ Others(u'.list, call'.arg) = Others(u.list, call'.arg)]_vars

C19_Witness ==
  /\ call.op = "set"
  /\ call.arg = << "k" >>
  /\ call.val = << "&", "=" >>
  /\ u.list = << Pair(<< "k" >>, << "&", "=" >>), Pair(<< "j" >>, << >>) >>

\* C20: delete(k) removes every pair of key k, and delete(k, v) the pairs of
\* key k and value v only; the pairs that remain keep their order, and the
\* list is as it was when no pair matches.
C20_DeleteRemovesMatchingPairs ==
  [][/\ call'.op = "delete" =>
          /\ u'.list = Others(u.list, call'.arg)
          /\ Places(u.list, call'.arg) = { } => u'.list = u.list
     /\ call'.op = "deleteValue" =>
          /\ u'.list = SelectSeq(u.list, LAMBDA pair :
                                   ~(pair[1] = call'.arg /\ pair[2] = call'.val))
          /\ Pair(call'.arg, call'.val) \notin { u.list[i] : i \in 1..Len(u.list) }
               => u'.list = u.list]_vars

C20_Witness ==
  /\ call.op = "deleteValue"
  /\ call.arg = << "k" >>
  /\ call.val = << "1" >>
  /\ u.list = << Pair(<< "j" >>, << >>), Pair(<< "k" >>, << " " >>) >>

\* The pairs of list whose key is name, in their order.
Named(list, name) == SelectSeq(list, LAMBDA pair : pair[1] = name)

\* The keys of list.
Keys(list) == { list[i][1] : i \in 1..Len(list) }

C22_ToStringRoundTrips ==
  call.op = "reparse" => (~call.threw /\ call.ret = call.arg)

\* The form of one character in a query string: "+" for a space, "%2B" for
\* "+", the character itself when it is unreserved, and its escape otherwise.
FormOfChar(c) ==
  IF c = " " THEN << "+" >>
  ELSE IF c = "+" THEN << "%", "2", "B" >>
  ELSE IF c \in Unreserved THEN << c >>
  ELSE << "%", HexUpper[(CodeOf(c) \div 16) + 1], HexUpper[(CodeOf(c) % 16) + 1] >>

RECURSIVE FormOf(_)
FormOf(s) == IF s = << >> THEN << >> ELSE FormOfChar(Head(s)) \o FormOf(Tail(s))

\* The pairs of list written key "=" value, with "&" between two pairs.
RECURSIVE QueryOf(_)
QueryOf(list) ==
  IF list = << >> THEN << >>
  ELSE FormOf(list[1][1]) \o << "=" >> \o FormOf(list[1][2])
         \o (IF Len(list) = 1 THEN << >> ELSE << "&" >> \o QueryOf(Tail(list)))

\* C23: toString() returns the pairs in container order, key "=" value
\* joined with "&", every key and value percent-encoded with a space written
\* "+" and a "+" written "%2B"; it returns the empty string for an empty
\* container.
C23_ToStringEncodesPairs ==
  call.op = "params.toString" =>
    /\ ~call.threw
    /\ call.ret = QueryOf(call.arg)
    /\ call.arg = << >> => call.ret = << >>

\* The pieces of a query string: what follows one leading "?", split on "&";
\* the empty string has none.
Pieces(init) ==
  IF (IF StartsWith(init, << "?" >>) THEN Tail(init) ELSE init) = << >> THEN << >>
  ELSE SplitOn(IF StartsWith(init, << "?" >>) THEN Tail(init) ELSE init, "&")

\* The two sides of a piece, split at its first "=".
KeySide(piece) ==
  IF IndexOf(piece, "=") = 0 THEN piece ELSE Take(piece, IndexOf(piece, "=") - 1)

ValueSide(piece) ==
  IF IndexOf(piece, "=") = 0 THEN << >> ELSE Drop(piece, IndexOf(piece, "="))

\* A side read as text: "+" is a space, and the escapes are decoded.
Text(side) == DecodeURIComponent(ReplaceChar(side, "+", " ")).val

\* The container holds one pair for each piece, in the order of the pieces.
HoldsPieces(list, pieces) ==
  /\ Len(list) = Len(pieces)
  /\ \A i \in 1..Len(pieces) :
       list[i] = Pair(Text(KeySide(pieces[i])), Text(ValueSide(pieces[i])))

\* C24: new URLSearchParams(s) for a string s holds one pair for each piece
\* of s between "&", after one leading "?" is dropped, in the order of s and
\* with duplicates: the key is the piece up to its first "=" and the value
\* what follows it, empty when there is no "=", both with "+" read as a
\* space; the empty string gives an empty container.
C24_StringInitIsSplitInOrder ==
  call.op = "fromString" => (~call.threw /\ HoldsPieces(call.ret, Pieces(call.arg)))

\* C25: new URLSearchParams(init) for a sequence of pairs throws when an
\* element has a length other than 2 and otherwise holds the pairs in the
\* order of the sequence; it throws for a value that is not a string, a
\* container, an iterable or an object; it holds no pair when init is
\* omitted or null; and no mutator throws, whatever strings it is given.
C25_InitializersFailMutatorsDoNot ==
  /\ call.op = "fromPairs" =>
       IF \E i \in 1..Len(call.arg) : Len(call.arg[i]) # 2 THEN call.threw
       ELSE ~call.threw /\ call.ret = call.arg
  /\ call.op = "fromOther" => call.threw
  /\ call.op = "fromNothing" => (~call.threw /\ call.ret = << >>)
  /\ call.op \in Mutators => ~call.threw

\* The function that defines a name.
InstallerOf(name) == IF name = "URL" THEN "installURL" ELSE "installURLSearchParams"

\* C26: installURL() and installURLSearchParams() leave globalThis as it is
\* and report skipped when their name is present on it, and define the name
\* and report success when it is absent; an install() that follows an
\* install() does not fail, and reports skipped when the first succeeded.
C26_InstallIsIdempotent ==
  [][ /\ \A name \in GlobalNames :
           call'.op = InstallerOf(name) =>
             IF registry.values[name] # "absent"
             THEN registry' = registry /\ call'.ret.type = "skipped"
             ELSE registry'.values[name] = "ponyfill" /\ call'.ret.type = "success"
      /\ (call.op = "install" /\ call'.op = "install") =>
           /\ call'.ret.type # "failure"
           /\ call.ret.type = "success" => call'.ret.type = "skipped" ]_vars

\* The names absent from globalThis.
Absent(reg) == { name \in GlobalNames : reg.values[name] = "absent" }

\* The names whose value this step changed.
Defined(before, after) == { name \in GlobalNames : after.values[name] # before.values[name] }

\* C27: install() returns the failure of the first definition that fails,
\* URL before URLSearchParams, and leaves URLSearchParams alone when it is
\* the one of URL; it returns skipped when both names were present; and it
\* returns success otherwise, its data holding exactly the names it defined.
C27_InstallAggregates ==
  [][ call'.op = "install" =>
        IF "URL" \in Absent(registry) \cap registry.faulty
        THEN /\ call'.ret = Failure("URL")
             /\ registry'.values["URLSearchParams"] = registry.values["URLSearchParams"]
        ELSE IF "URLSearchParams" \in Absent(registry) \cap registry.faulty
        THEN call'.ret = Failure("URLSearchParams")
        ELSE IF Absent(registry) = { }
        THEN call'.ret = Skipped /\ registry' = registry
        ELSE /\ call'.ret.type = "success"
             /\ call'.ret.data = Defined(registry, registry')
             /\ call'.ret.data = Absent(registry) ]_vars

\* C28: what the callback of forEach does to the container is seen by the
\* rest of the traversal: a pair the callback deleted is not handed to it
\* afterwards, and a pair it appended and did not delete has been handed to
\* it when forEach returns (pairs being neither sorted nor removed behind
\* the place of the traversal).
C28_ForEachSeesMutations ==
  [][ /\ walk'.idx = walk.idx + 1 => walk'.passed[walk'.idx] \notin walk.deleted
      /\ (walk'.done /\ ~walk'.shifted) =>
           (walk'.appended \ walk'.deleted) \subseteq Refs(walk'.passed) ]_vars

\* The segments of a path: what lies between its "/".
Segments(path) == SplitOn(path, "/")

\* No segment is "." or "..", and no segment but the first and the last is
\* empty.
Normal(segments) ==
  /\ \A i \in 1..Len(segments) : segments[i] \notin { << "." >>, << ".", "." >> }
  /\ \A i \in 2..(Len(segments) - 1) : segments[i] # << >>

\* C29: normalize(p) has no "." and no ".." segment and no empty segment
\* inside, and keeps the empty first segment of a path that starts with "/",
\* whatever ".." segments follow it; and the pathname of a URL constructed
\* from a reference without scheme and authority and a base has no ".."
\* segment.
C29_NormalizeLeavesNoDotSegments ==
  /\ call.op = "normalize" =>
       /\ Normal(Segments(call.ret))
       /\ StartsWith(call.arg, << "/" >>) => Segments(call.ret)[1] = << >>
  /\ (Resolved /\ IsRelative(call.arg)) =>
       \A i \in 1..Len(Segments(u.pathname)) : Segments(u.pathname)[i] # << ".", "." >>

C29_Witness ==
  /\ call.op = "normalize"
  /\ call.arg = << "/", ".", ".", "/" >>
  /\ call.ret = << "/" >>

\* C30: an assignment to u.href or to u.search that throws leaves u as it
\* was: its eight fields, its href and the pairs of u.searchParams.
C30_FailedAssignmentChangesNothing ==
  [][ (call'.op \in { "href", "search" } /\ call'.threw) =>
        /\ Fields(u') = Fields(u)
        /\ Href(u') = Href(u)
        /\ u'.list = u.list ]_vars

====
